---- MODULE Spec2Model ----
(***************************************************************************)
(* Tg-New-Gift-Notify: two polling scripts that diff a fetched snapshot    *)
(* against a cursor kept in a local file and notify a Telegram chat.       *)
(*                                                                         *)
(*   src/main.py          timestamp variant: the cursor is the decimal     *)
(*                        watermark in last_checked_timestamp.txt          *)
(*   src/gift_checker.py  catalog variant: the cursor is the JSON object   *)
(*                        in gifts_data.json                               *)
(*                                                                         *)
(* The scripts share nothing: each has its own file and its own           *)
(* credentials.  A behaviour follows one deployment, which schedules one   *)
(* of the two scripts again and again; every invocation is a fresh         *)
(* process whose locals are reset when it starts, and only the state file  *)
(* persists from one invocation to the next.                               *)
(***************************************************************************)
EXTENDS Integers, Sequences, FiniteSets

\* ------------------------------------------------------------------ bounds
MaxTs == 2
MaxFeedLen == 2
MaxCatalogLen == 2
MaxRuns == 2
\* Longest feed served to invocations that overlap.
MaxOverlapFeedLen == 1
\* A block_timestamp whose decimal text is longer than that of the others.
LongTs == 10

\* ---------------------------------------------------------------- numbers
\* A JSON number or boolean as Python holds it once decoded: an int, a
\* float or a bool.  Its value is the integer whole plus tenths tenths
\* (none for an int or a bool); True counts as 1 wherever Python compares
\* it with a number.
PyNum(type, whole, tenths) == [type |-> type, whole |-> whole, tenths |-> tenths]
PyInt(n) == PyNum("int", n, 0)
PyFloat(n, t) == PyNum("float", n, t)
PyTrue == PyNum("bool", 1, 0)
\* a > b, a <= b and a == b between two such values, of whatever types.
Gt(a, b) == a.whole > b.whole \/ (a.whole = b.whole /\ a.tenths > b.tenths)
Le(a, b) == ~Gt(a, b)
NumEq(a, b) == a.whole = b.whole /\ a.tenths = b.tenths

\* ------------------------------------------------------- input domains
\* block_timestamp values the feed can carry: seconds as a positive
\* integer, and the other JSON values that lines 86-101 take as they come,
\* no type being checked: a number with a fraction (1.5), a float that
\* equals an integer (2.0) and true.
IntTimestamps == {PyInt(n) : n \in 1 .. MaxTs}
OtherTimestamps == {PyFloat(1, 5), PyFloat(2, 0), PyTrue}
Timestamps == IntTimestamps \cup OtherTimestamps
\* nft_item_address of a transfer.
Items == {"a"}
\* The descriptive fields of a transfer (nft_item with its name, sender,
\* recipient and their addresses), which only feed the message text: each
\* of them an object or a string, or absent, so that the text can be built
\* and sent; or one of them JSON null, on which .get or the [:8] slice
\* raises; or a string among them holds a lone surrogate (JSON "\ud83d"),
\* so that the text can be built but not encoded for the POST.
DetailKinds == {"usable", "null", "surrogate"}
\* One element of data['nft_transfers'], reduced to the fields the cursor
\* logic reads and to the kind of its descriptive fields.  The descriptive
\* fields vary under the integer timestamps; a transfer with another
\* timestamp has usable ones.
Transfers ==
  [nft_item_address : Items, block_timestamp : IntTimestamps, details : DetailKinds]
    \cup [nft_item_address : Items, block_timestamp : OtherTimestamps,
          details : {"usable"}]

SeqsUpTo(S, n) == UNION {[1 .. k -> S] : k \in 0 .. n}

\* The 'nft_transfers' lists a successful fetch can return, in feed order.
Feeds == SeqsUpTo(Transfers, MaxFeedLen)

\* The feeds served to invocations that overlap: short ones, over the
\* newest integer timestamp and one whose decimal text is longer.
OverlapTimestamps == {PyInt(MaxTs), PyInt(LongTs)}
OverlapTransfers ==
  [nft_item_address : Items, block_timestamp : OverlapTimestamps, details : DetailKinds]
OverlapFeeds == SeqsUpTo(OverlapTransfers, MaxOverlapFeedLen)

\* The process running src/main.py.  Procs holds a second one for
\* invocations that overlap; a sequential schedule only ever runs SeqProc.
Procs == {"p1", "p2"}
SeqProc == "p1"

\* ------------------------------------------------ text of the state file
\* The state file is a sequence of characters, or does not exist.
DigitChar == <<"0", "1", "2", "3", "4", "5", "6", "7", "8", "9">>
Digits == {DigitChar[i] : i \in 1 .. Len(DigitChar)}
\* The characters str.strip() and int() treat as whitespace (str.isspace).
\* A character that cannot be written in a string here is named by its
\* Python escape: "\\x0b" is the one character '\x0b'.
Whitespace ==
  {" ", "\t", "\n", "\r", "\f", "\\x0b", "\\x1c", "\\x1d", "\\x1e", "\\x1f",
   "\\x85", "\\xa0", "\\u1680", "\\u2000", "\\u2001", "\\u2002", "\\u2003",
   "\\u2004", "\\u2005", "\\u2006", "\\u2007", "\\u2008", "\\u2009", "\\u200a",
   "\\u2028", "\\u2029", "\\u202f", "\\u205f", "\\u3000"}
\* Decimal digits outside ASCII that int() accepts as well; of the Unicode
\* category Nd the Arabic-Indic block stands for the rest.
OtherDigitChar ==
  <<"\\u0660", "\\u0661", "\\u0662", "\\u0663", "\\u0664", "\\u0665",
    "\\u0666", "\\u0667", "\\u0668", "\\u0669">>
OtherDigits == {OtherDigitChar[i] : i \in 1 .. Len(OtherDigitChar)}
AnyDigits == Digits \cup OtherDigits
Signs == {"+", "-"}
Underscore == "_"

NoFile == [exists |-> FALSE, content |-> <<>>]
File(text) == [exists |-> TRUE, content |-> text]

\* str(n) for a non-negative integer: its decimal digits.
RECURSIVE IntToStr(_)
IntToStr(n) ==
  IF n < Len(DigitChar) THEN <<DigitChar[n + 1]>>
  ELSE Append(IntToStr(n \div Len(DigitChar)), DigitChar[(n % Len(DigitChar)) + 1])

\* s.strip(): leading and trailing whitespace removed.
RECURSIVE LStrip(_)
LStrip(s) == IF s # <<>> /\ Head(s) \in Whitespace THEN LStrip(Tail(s)) ELSE s
RECURSIVE RStrip(_)
RStrip(s) ==
  IF s # <<>> /\ s[Len(s)] \in Whitespace THEN RStrip(SubSeq(s, 1, Len(s) - 1)) ELSE s
Strip(s) == RStrip(LStrip(s))

\* int(s) in base 10 accepts: optional whitespace around an optional sign
\* followed by decimal digits, with single underscores allowed between
\* digits, up to a limit on the number of digits.  Anything else raises
\* ValueError.
Unsigned(s) == IF s # <<>> /\ Head(s) \in Signs THEN Tail(s) ELSE s
IsDigitRun(u) ==
  /\ u # <<>>
  /\ u[1] \in AnyDigits
  /\ u[Len(u)] \in AnyDigits
  /\ \A i \in 1 .. Len(u) : u[i] \in AnyDigits \cup {Underscore}
  /\ \A i \in 1 .. Len(u) - 1 : ~(u[i] = Underscore /\ u[i + 1] = Underscore)
\* int() refuses a text of more digits than this (the limit CPython puts on
\* the conversion of a str to an int, sys.get_int_max_str_digits()); sign,
\* whitespace and underscores do not count, leading zeros do.
IntMaxStrDigits == 4300
DigitCount(u) == Cardinality({i \in 1 .. Len(u) : u[i] \in AnyDigits})
IsIntLiteral(s) ==
  /\ IsDigitRun(Unsigned(Strip(s)))
  /\ DigitCount(Unsigned(Strip(s))) <= IntMaxStrDigits
DigitVal(c) ==
  IF c \in Digits THEN CHOOSE d \in 0 .. Len(DigitChar) - 1 : DigitChar[d + 1] = c
  ELSE CHOOSE d \in 0 .. Len(OtherDigitChar) - 1 : OtherDigitChar[d + 1] = c
\* A digit run from its first digit that is not a zero on; leading zeros
\* add nothing to the value.
Significant(u) ==
  LET nonzero == {i \in 1 .. Len(u) : u[i] # Underscore /\ DigitVal(u[i]) # 0}
  IN IF nonzero = {} THEN <<>>
     ELSE SubSeq(u, CHOOSE i \in nonzero : \A j \in nonzero : i <= j, Len(u))
\* The value of a digit run, underscores passed over.
RECURSIVE SignificantVal(_)
SignificantVal(u) ==
  IF u = <<>> THEN 0
  ELSE IF u[Len(u)] = Underscore THEN SignificantVal(SubSeq(u, 1, Len(u) - 1))
  ELSE SignificantVal(SubSeq(u, 1, Len(u) - 1)) * Len(DigitChar) + DigitVal(u[Len(u)])
DigitRunVal(u) == SignificantVal(Significant(u))
\* int(s) for a literal s: the value of its digits, negated after "-".
StrToInt(s) ==
  IF Strip(s) # <<>> /\ Head(Strip(s)) = "-" THEN 0 - DigitRunVal(Unsigned(Strip(s)))
  ELSE DigitRunVal(Unsigned(Strip(s)))

\* read_last_timestamp(): the integer the file's text denotes, which may be
\* negative; 0 when the file is missing or int() rejects the text (bytes
\* that do not decode raise UnicodeDecodeError, a ValueError, and give 0 too).
read_last_timestamp(f) ==
  IF ~f.exists THEN 0
  ELSE IF IsIntLiteral(Strip(f.content)) THEN StrToInt(Strip(f.content))
  ELSE 0

\* str(x) for an int, a float or a bool: a float keeps its point and its
\* first decimal ("1.5", "2.0"), True is the word.
str(x) ==
  CASE x.type = "int" -> IntToStr(x.whole)
    [] x.type = "float" -> IntToStr(x.whole) \o <<".", DigitChar[x.tenths + 1]>>
    [] x.type = "bool" -> <<"T", "r", "u", "e">>

\* What write_last_timestamp(n) leaves in the file once it has returned:
\* str(n), whatever the type of n.
write_last_timestamp(n) == File(str(n))

\* open(STATE_FILE, 'w'): the file exists and is empty until the write.
Truncated == File(<<>>)

\* f.write(text) and close on a handle opened with 'w': the text goes to
\* offset 0 of the file as it is at that moment.  That is the empty file
\* open left, unless another process has written to it since; what lies
\* beyond the end of the text then stays.
WriteAtStart(f, text) ==
  File(text \o SubSeq(f.content, Len(text) + 1, Len(f.content)))

\* A variant of sorted that leaves the feed in the order it arrived.
sorted_FeedOrder(xs) == xs

\* sorted(xs, key=lambda x: x['block_timestamp']): ascending and stable.
RECURSIVE InsertSorted(_, _)
InsertSorted(x, s) ==
  IF s = <<>> THEN <<x>>
  ELSE IF Le(s[Len(s)].block_timestamp, x.block_timestamp) THEN Append(s, x)
  ELSE Append(InsertSorted(x, SubSeq(s, 1, Len(s) - 1)), s[Len(s)])
RECURSIVE sorted(_)
sorted(xs) ==
  IF xs = <<>> THEN <<>>
  ELSE InsertSorted(xs[Len(xs)], sorted(SubSeq(xs, 1, Len(xs) - 1)))

\* What the environment of a process holds for the bot token and the chat
\* id: one of them missing or empty ("unset"), both there ("set"), or both
\* there with a byte that is no UTF-8 in the chat id ("unencodable"; the
\* variable then reads as a str with a lone surrogate in that place).
Credentials == {"unset", "set", "unencodable"}

\* What send_alert / send_telegram_notification did with one message:
\* "skipped" (credentials unset, no HTTP request), "sent" (the POST
\* succeeded), "failed" (the POST raised RequestException, logged) or
\* "raised": requests.post could not encode the form, whose text or chat id
\* holds a lone surrogate, and its UnicodeEncodeError, no RequestException,
\* came out of the sender with no HTTP request made.
SendOutcomes(credentials, encodable) ==
  IF credentials = "unset" THEN {"skipped"}
  ELSE IF credentials = "set" /\ encodable THEN {"sent", "failed"}
  ELSE {"raised"}

\* Line 94 of main.py skips a transfer unless it is strictly newer than
\* the loaded watermark, which is the int read_last_timestamp returned.
IsNew(current_timestamp, last_timestamp) == Gt(current_timestamp, PyInt(last_timestamp))

\* Lines 100-101: the newest timestamp found in this run.
NewestAfter(newest_timestamp, current_timestamp) ==
  IF Gt(current_timestamp, newest_timestamp) THEN current_timestamp ELSE newest_timestamp

\* Line 131: the state file is written only when this holds.
ShouldWrite(new_events_found, newest_timestamp, last_timestamp) ==
  new_events_found /\ Gt(newest_timestamp, PyInt(last_timestamp))

\* ------------------------------------------- JSON of the catalog variant
Keys == {"a", "b", "c"}
Payloads == {"p"}
\* One "key": payload member of a JSON object.
Members == Keys \X Payloads
\* Bytes that are no UTF-8, in the place of a key or of a payload, and the
\* character U+FFFD a decoder with errors="replace" puts in their place.
BadBytes == {"\\xe9", "\\xff"}
ReplacementChar == "\\ufffd"
\* A key that is a lone surrogate, which JSON text spells as the escape
\* \ud83d: json decodes and dumps it, UTF-8 cannot encode it.
LoneSurrogate == "\\ud83d"

\* The content of a file or of a response body, as the JSON decoder sees
\* it: an object with its members in textual order (a key may repeat; a
\* key or payload may be bytes that are no UTF-8), another JSON value, text
\* that is no JSON (any other text, no text, or the beginning of a dumped
\* object cut off after some of its members), bytes that are no UTF-8 and
\* no JSON either once replaced, or well-formed JSON the decoder gives up
\* on: a text with an integer literal of more than IntMaxStrDigits digits,
\* and a text nested deeper than the interpreter's recursion limit.
JsonObject(members) == [kind |-> "object", members |-> members]
JsonArray == [kind |-> "array", members |-> <<>>]
JsonNull == [kind |-> "null", members |-> <<>>]
Garbage == [kind |-> "garbage", members |-> <<>>]
EmptyText == [kind |-> "empty", members |-> <<>>]
CutOff(members) == [kind |-> "cutoff", members |-> members]
NotUtf8 == [kind |-> "notutf8", members |-> <<>>]
OverlongInt == [kind |-> "overlongint", members |-> <<>>]
TooDeep == [kind |-> "toodeep", members |-> <<>>]

\* The values json decoding yields, and the exceptions it raises.
PyDict(items) == [type |-> "dict", items |-> items]
PyList == [type |-> "list", items |-> <<>>]
PyNone == [type |-> "None", items |-> <<>>]
JSONDecodeError == [type |-> "JSONDecodeError", items |-> <<>>]
UnicodeDecodeError == [type |-> "UnicodeDecodeError", items |-> <<>>]
ValueError == [type |-> "ValueError", items |-> <<>>]
RecursionError == [type |-> "RecursionError", items |-> <<>>]
Raised(v) == v \in {JSONDecodeError, UnicodeDecodeError, ValueError, RecursionError}

\* d[k] = v on a dict kept as its items in insertion order.
RECURSIVE DictSet(_, _, _)
DictSet(items, k, v) ==
  IF items = <<>> THEN <<<<k, v>>>>
  ELSE IF Head(items)[1] = k THEN <<<<k, v>>>> \o Tail(items)
  ELSE <<Head(items)>> \o DictSet(Tail(items), k, v)

\* The dict a JSON object decodes to: members inserted left to right.
RECURSIVE DictFromMembers(_)
DictFromMembers(members) ==
  IF members = <<>> THEN <<>>
  ELSE LET m == members[Len(members)]
       IN DictSet(DictFromMembers(SubSeq(members, 1, Len(members) - 1)), m[1], m[2])

\* Whether the bytes of a text fail to decode as UTF-8.
HasBadBytes(text) ==
  \/ text.kind = "notutf8"
  \/ \E i \in 1 .. Len(text.members) :
       text.members[i][1] \in BadBytes \/ text.members[i][2] \in BadBytes

\* bytes.decode(encoding, errors="replace"): what does not decode becomes
\* U+FFFD, the rest of the text stays.
ReplacedChar(c) == IF c \in BadBytes THEN ReplacementChar ELSE c
Replaced(text) ==
  IF text.kind = "notutf8" THEN Garbage
  ELSE [text EXCEPT !.members =
          [i \in 1 .. Len(text.members) |->
             <<ReplacedChar(text.members[i][1]), ReplacedChar(text.members[i][2])>>]]

\* json.load(f) on a file opened in text mode: reading the bytes that do
\* not decode raises UnicodeDecodeError before any parsing; text that is no
\* JSON raises JSONDecodeError; in well-formed JSON, int() raises ValueError
\* (no JSONDecodeError) on an integer literal past its digit limit, and the
\* scanner raises RecursionError on nesting past the recursion limit.
json_load(text) ==
  CASE HasBadBytes(text) -> UnicodeDecodeError
    [] text.kind = "object" -> PyDict(DictFromMembers(text.members))
    [] text.kind = "array" -> PyList
    [] text.kind = "null" -> PyNone
    [] text.kind = "overlongint" -> ValueError
    [] text.kind = "toodeep" -> RecursionError
    [] OTHER -> JSONDecodeError

\* response.json(): requests decodes the body with errors="replace" (as
\* UTF-8 when the response is application/json) and parses the result, so
\* bytes that are no UTF-8 never raise by themselves.  It wraps the
\* JSONDecodeError of the parser in its own, which is one too, and lets
\* every other exception of the parser through as it is.
response_json(body) == json_load(Replaced(body))

\* json.dump(data, f, indent=4) of a dict: one member per item, in order.
json_dump(data) == JsonObject(data.items)

NoDataFile == [exists |-> FALSE, content |-> EmptyText]
DataFile(text) == [exists |-> TRUE, content |-> text]

\* load_previous_data(DATA_FILE): {} when the file is missing or is not
\* JSON, else whatever value the JSON text holds.  Only JSONDecodeError is
\* caught: the UnicodeDecodeError of a file that is not UTF-8 comes out,
\* and so do the ValueError and the RecursionError of the parser.
load_previous_data(f) ==
  IF ~f.exists THEN PyDict(<<>>)
  ELSE IF json_load(f.content) = JSONDecodeError THEN PyDict(<<>>)
  ELSE json_load(f.content)

\* A variant of fetch_current_data that answers an undecodable body with an
\* empty catalog instead of None.
fetch_current_data_EmptyOnError(body) ==
  IF response_json(body) = JSONDecodeError THEN PyDict(<<>>) ELSE response_json(body)

\* fetch_current_data(url) on a 2xx response with this body: None when the
\* body is not JSON.  Lines 49 and 55 catch JSONDecodeError and
\* RequestException only: any other exception of response.json() comes out.
fetch_current_data(body) ==
  IF response_json(body) = JSONDecodeError THEN PyNone ELSE response_json(body)

\* get_gift_keys(data) = set(data.keys()), defined on a dict only.
get_gift_keys(data) == {data.items[i][1] : i \in 1 .. Len(data.items)}

\* Line 95: current_keys - previous_keys.
NewGifts(current_keys, previous_keys) == current_keys \ previous_keys

\* The keys a JSON object text names, read off the text itself; none when
\* the text does not decode.
TextKeys(text) ==
  IF json_load(text).type = "dict"
  THEN {text.members[i][1] : i \in 1 .. Len(text.members)}
  ELSE {}

\* The keys of the catalog a response body holds, as requests decodes it.
BodyKeys(body) == TextKeys(Replaced(body))

\* The key set a data file persists (none when it holds no JSON object).
PersistedKeys(f) == IF f.exists THEN TextKeys(f.content) ELSE {}

\* The response bodies a 2xx catalog fetch can carry: catalogs over the
\* ordinary keys, catalogs with a key or a payload that is no UTF-8 or with
\* a key that is a lone surrogate, and bodies that are no catalog.
CatalogObjects == {JsonObject(m) : m \in SeqsUpTo(Members, MaxCatalogLen)}
OddCatalogObjects ==
  {JsonObject(<<<<"a", "\\xe9">>>>), JsonObject(<<<<"\\xff", "p">>>>),
   JsonObject(<<<<LoneSurrogate, "p">>>>),
   JsonObject(<<<<"a", "p">>, <<LoneSurrogate, "p">>>>)}
CatalogBodies ==
  CatalogObjects \cup OddCatalogObjects
    \cup {JsonArray, JsonNull, Garbage, NotUtf8, OverlongInt, TooDeep}

\* The watermark a state file stands for: the integer its text spells once
\* whitespace is stripped, 0 when there is none.
Watermark(f) ==
  IF f.exists /\ IsIntLiteral(Strip(f.content)) THEN StrToInt(Strip(f.content)) ELSE 0

\* The largest of m and the block_timestamps of a feed.
RECURSIVE FeedMax(_, _)
FeedMax(feed, m) ==
  IF feed = <<>> THEN m
  ELSE FeedMax(Tail(feed), IF Gt(Head(feed).block_timestamp, m)
                           THEN Head(feed).block_timestamp ELSE m)

\* ------------------------------------------------------------------ state
VARIABLES
  script,     \* the entry point this deployment schedules
  runs,       \* invocations started so far
  tsFile,     \* last_checked_timestamp.txt
  watermark0, \* the watermark that file stood for when the deployment started
  proc,       \* main.py: the locals of each process
  recording,  \* main.py: whether the history of the four variables below is kept
  attempted,  \* main.py: the transfers send_alert has been called for
  sent,       \* main.py: the transfers an alert has gone out for
  resent,     \* main.py: an alert went out for a transfer in a second run
  maxFetched, \* main.py: the largest of the first watermark and every
              \* block_timestamp a fetch has returned
  dataFile,   \* gifts_data.json
  cat,        \* gift_checker.py: the locals of its process
  vanished    \* gift_checker.py: keys once persisted, absent from the last catalog

vars ==
  <<script, runs, tsFile, watermark0, proc, recording, attempted, sent, resent,
    maxFetched, dataFile, cat, vanished>>
\* What the model remembers of the runs of main.py so far, for the
\* properties that span several runs.  No action reads it; a specification
\* whose properties do not read it either leaves it unrecorded.
histVars == <<attempted, sent, resent, maxFetched>>
tsVars == <<tsFile, watermark0, proc, histVars>>
catVars == <<dataFile, cat, vanished>>

Range(s) == {s[i] : i \in 1 .. Len(s)}

\* A process of main.py that has not started.
IdleProc ==
  [pc |-> "idle", run |-> 0, credentials |-> "unset", startFile |-> NoFile,
   last_timestamp |-> 0, fetch |-> "none", feed |-> <<>>, transfers |-> <<>>,
   i |-> 1, newest_timestamp |-> PyInt(0), new_events_found |-> FALSE,
   alerts |-> <<>>, wrote |-> FALSE,
   repeat |-> FALSE, prevFeed |-> <<>>]

\* The process of gift_checker.py before it starts.
IdleCat ==
  [pc |-> "idle", run |-> 0, credentials |-> "unset", startFile |-> NoDataFile,
   vanishedBefore |-> {},
   previous_data |-> PyDict(<<>>), response |-> "none", body |-> EmptyText,
   fetch |-> "none",
   current_data |-> PyNone, new_gifts |-> {}, notified |-> <<>>, wrote |-> FALSE,
   repeat |-> FALSE, prevBody |-> EmptyText]

\* What the state file of main.py can hold when the deployment starts:
\* nothing, a watermark (as written, or in another spelling int() accepts:
\* padded with whitespace, signed, with an underscore), or content that
\* int() rejects (a text of more than IntMaxStrDigits digits is rejected
\* like "x" is).
InitialTsFiles ==
  {NoFile, File(<<>>), File(<<"x">>), File(<<"\t", "+", "1", "\r", "\n">>),
   File(<<"-", "1">>), File(<<"1", "_", "0">>)}
    \cup {File(IntToStr(n)) : n \in 0 .. MaxTs}

\* What the data file of gift_checker.py can hold when the deployment
\* starts: nothing, a saved catalog, or content that is no JSON object
\* (other JSON, other text, bytes that are no UTF-8, JSON the decoder
\* gives up on).
InitialDataFiles ==
  {NoDataFile, DataFile(Garbage), DataFile(EmptyText), DataFile(JsonArray),
   DataFile(NotUtf8), DataFile(JsonObject(<<<<"a", "\\xe9">>>>)),
   DataFile(OverlongInt), DataFile(TooDeep)}
    \cup {DataFile(json_dump(json_load(b))) : b \in CatalogObjects}

InitState(rec) ==
  /\ script \in {"main.py", "gift_checker.py"}
  /\ runs = 0
  /\ tsFile \in (IF script = "main.py" THEN InitialTsFiles ELSE {NoFile})
  /\ watermark0 = Watermark(tsFile)
  /\ proc = [p \in Procs |-> IdleProc]
  /\ recording = rec
  /\ attempted = {}
  /\ sent = {}
  /\ resent = FALSE
  /\ maxFetched = PyInt(Watermark(tsFile))
  /\ dataFile \in (IF script = "gift_checker.py" THEN InitialDataFiles ELSE {NoDataFile})
  /\ cat = IdleCat
  /\ vanished = {}

Init == InitState(FALSE)

InitRecorded == InitState(TRUE)

\* new when the history is kept, old when it is not.
Recorded(new, old) == IF recording THEN new ELSE old

\* A process that is not running: never started, returned, died on an
\* uncaught exception, or was killed.
Finished(pc) == pc \in {"idle", "done", "crashed", "killed"}

\* ------------------------------------------------------- main.py actions
\* Process start and lines 66-67: the credentials are read from the
\* environment at import, then the watermark is read from the state file.
\* repeat tells whether the API is about to serve this run the very feed
\* it served the previous run, which must then have finished normally;
\* only in that case is the previous feed remembered.
TsBegin(p, repeat) ==
  /\ script = "main.py"
  /\ Finished(proc[p].pc)
  /\ runs < MaxRuns
  /\ repeat => (proc[p].pc = "done" /\ proc[p].fetch = "ok")
  /\ \E c \in Credentials :
       proc' = [proc EXCEPT ![p] =
         [IdleProc EXCEPT !.pc = "fetch", !.run = runs + 1, !.credentials = c,
            !.startFile = tsFile,
            !.last_timestamp = read_last_timestamp(tsFile),
            !.repeat = repeat,
            !.prevFeed = IF repeat THEN proc[p].feed ELSE <<>>]]
  /\ runs' = runs + 1
  /\ UNCHANGED <<script, recording, tsFile, watermark0, histVars, catVars>>

TsStart(p) == TsBegin(p, FALSE)

TsStartRepeat(p) == TsBegin(p, TRUE)

\* Lines 75-81: the GET fails (network error, non-2xx status, or a body
\* that requests reports as RequestException); the function returns.
TsFetchFail(p) ==
  /\ proc[p].pc = "fetch"
  /\ ~proc[p].repeat
  /\ proc' = [proc EXCEPT ![p].pc = "done", ![p].fetch = "failed"]
  /\ UNCHANGED <<script, recording, runs, tsFile, watermark0, histVars, catVars>>

\* Lines 77-86: response.json() on an undecodable body raises ValueError
\* where requests does not wrap it in a RequestException, data.get raises
\* on a body that is no JSON object, and the sort key raises on an element
\* without block_timestamp; nothing catches any of them.
TsFetchRaise(p) ==
  /\ proc[p].pc = "fetch"
  /\ ~proc[p].repeat
  /\ proc' = [proc EXCEPT ![p].pc = "crashed", ![p].fetch = "raised"]
  /\ UNCHANGED <<script, recording, runs, tsFile, watermark0, histVars, catVars>>

\* Lines 75-88: the GET succeeds with one of these feeds; the transfers are
\* sorted oldest first.
TsFetchFrom(p, feeds) ==
  /\ proc[p].pc = "fetch"
  /\ \E feed \in (IF proc[p].repeat THEN {proc[p].prevFeed} ELSE feeds) :
       /\ proc' = [proc EXCEPT ![p].pc = "loop", ![p].fetch = "ok",
                     ![p].feed = feed,
                     ![p].new_events_found = FALSE,
                     ![p].transfers = sorted(feed),
                     ![p].newest_timestamp = PyInt(proc[p].last_timestamp),
                     ![p].i = 1,
                     ![p].prevFeed = <<>>]
       /\ maxFetched' = Recorded(FeedMax(feed, maxFetched), maxFetched)
  /\ UNCHANGED <<script, recording, runs, tsFile, watermark0, attempted, sent,
                 resent, catVars>>

TsFetchOk(p) == TsFetchFrom(p, Feeds)

\* Lines 90-95: the next transfer is not newer than the watermark.
TsSkip(p) ==
  /\ proc[p].pc = "loop"
  /\ proc[p].i <= Len(proc[p].transfers)
  /\ ~IsNew(proc[p].transfers[proc[p].i].block_timestamp, proc[p].last_timestamp)
  /\ proc' = [proc EXCEPT ![p].i = @ + 1]
  /\ UNCHANGED <<script, recording, runs, tsFile, watermark0, histVars, catVars>>

\* Whether an alert for this transfer has already gone out in the run of p.
SentInRun(p, transfer) ==
  \E k \in 1 .. Len(proc[p].alerts) :
    proc[p].alerts[k].transfer = transfer /\ proc[p].alerts[k].outcome = "sent"

\* Lines 90-122: the next transfer is new and one of its descriptive
\* fields is null; building the message raises AttributeError or TypeError
\* after lines 97-101 have run and before send_alert is called.  Nothing
\* catches it: the run is over, lines 131-135 are never reached.
TsMessageRaise(p) ==
  /\ proc[p].pc = "loop"
  /\ proc[p].i <= Len(proc[p].transfers)
  /\ LET transfer == proc[p].transfers[proc[p].i]
         current_timestamp == transfer.block_timestamp
     IN /\ IsNew(current_timestamp, proc[p].last_timestamp)
        /\ transfer.details = "null"
        /\ proc' = [proc EXCEPT ![p].pc = "crashed",
                      ![p].new_events_found = TRUE,
                      ![p].newest_timestamp = NewestAfter(@, current_timestamp)]
  /\ UNCHANGED <<script, recording, runs, tsFile, watermark0, histVars, catVars>>

\* Lines 90-127: the next transfer is new and its message can be built; the
\* alert is handed to send_alert, whose outcome the loop does not look at.
\* An exception that send_alert lets out ends the run at line 127, on this
\* transfer: lines 131-135 are never reached.
TsAlert(p) ==
  /\ proc[p].pc = "loop"
  /\ proc[p].i <= Len(proc[p].transfers)
  /\ LET transfer == proc[p].transfers[proc[p].i]
         current_timestamp == transfer.block_timestamp
     IN /\ IsNew(current_timestamp, proc[p].last_timestamp)
        /\ transfer.details # "null"
        /\ \E outcome \in SendOutcomes(proc[p].credentials,
                                       transfer.details # "surrogate") :
             /\ proc' = [proc EXCEPT ![p].i = IF outcome = "raised" THEN @ ELSE @ + 1,
                           ![p].pc = IF outcome = "raised" THEN "crashed" ELSE @,
                           ![p].new_events_found = TRUE,
                           ![p].newest_timestamp = NewestAfter(@, current_timestamp),
                           ![p].alerts = Append(@, [transfer |-> transfer, outcome |-> outcome])]
             /\ attempted' = Recorded(attempted \cup {transfer}, attempted)
             /\ sent' = Recorded(IF outcome = "sent" THEN sent \cup {transfer} ELSE sent,
                                 sent)
             /\ resent' = Recorded(resent \/ (outcome = "sent" /\ transfer \in sent
                                                /\ ~SentInRun(p, transfer)),
                                   resent)
  /\ UNCHANGED <<script, recording, runs, tsFile, watermark0, maxFetched, catVars>>

\* Lines 131-135: the loop is over and there is nothing to persist.
TsNoWrite(p) ==
  /\ proc[p].pc = "loop"
  /\ proc[p].i > Len(proc[p].transfers)
  /\ ~ShouldWrite(proc[p].new_events_found, proc[p].newest_timestamp, proc[p].last_timestamp)
  /\ proc' = [proc EXCEPT ![p].pc = "done"]
  /\ UNCHANGED <<script, recording, runs, tsFile, watermark0, histVars, catVars>>

\* A variant of the state update that can happen inside the loop, as soon
\* as a new transfer has been found.
TsOpen_InsideLoop(p) ==
  /\ proc[p].pc = "loop"
  /\ ShouldWrite(proc[p].new_events_found, proc[p].newest_timestamp, proc[p].last_timestamp)
  /\ tsFile' = Truncated
  /\ proc' = [proc EXCEPT ![p].pc = "write"]
  /\ UNCHANGED <<script, recording, runs, watermark0, histVars, catVars>>

\* Lines 131-132 and 37: open(STATE_FILE, 'w') empties the file.
TsOpen(p) ==
  /\ proc[p].pc = "loop"
  /\ proc[p].i > Len(proc[p].transfers)
  /\ ShouldWrite(proc[p].new_events_found, proc[p].newest_timestamp, proc[p].last_timestamp)
  /\ tsFile' = Truncated
  /\ proc' = [proc EXCEPT ![p].pc = "write"]
  /\ UNCHANGED <<script, recording, runs, watermark0, histVars, catVars>>

\* Line 38 and the end of the with block: the new watermark is written
\* through the handle that line 37 opened.
TsWrite(p) ==
  /\ proc[p].pc = "write"
  /\ tsFile' = WriteAtStart(tsFile, write_last_timestamp(proc[p].newest_timestamp).content)
  /\ proc' = [proc EXCEPT ![p].pc = "done", ![p].wrote = TRUE]
  /\ UNCHANGED <<script, recording, runs, watermark0, histVars, catVars>>

\* The process dies in the middle of a run: a signal, a cancelled job, or
\* an OSError out of f.write (disk full).  Nothing in main.py runs after
\* that; between open and close the file stays as open left it.
TsKill(p) ==
  /\ proc[p].pc \in {"fetch", "loop", "write"}
  /\ proc' = [proc EXCEPT ![p].pc = "killed"]
  /\ UNCHANGED <<script, recording, runs, tsFile, watermark0, histVars, catVars>>

check_for_new_gifts(p) ==
  \/ TsStart(p)
  \/ TsStartRepeat(p)
  \/ TsFetchFail(p)
  \/ TsFetchRaise(p)
  \/ TsFetchOk(p)
  \/ TsSkip(p)
  \/ TsMessageRaise(p)
  \/ TsAlert(p)
  \/ TsNoWrite(p)
  \/ TsOpen(p)
  \/ TsWrite(p)

\* ------------------------------------------------- gift_checker.py actions
\* Process start and line 85: the credentials are read from the
\* environment at import, then the previous catalog is loaded.  An
\* exception load_previous_data lets out is caught nowhere: main dies at
\* line 85, before the GET.  repeat tells whether the endpoint is about to
\* serve this run the very body it served the previous run, which must then
\* have finished normally; only in that case is the previous body
\* remembered.
CatBegin(repeat) ==
  /\ script = "gift_checker.py"
  /\ Finished(cat.pc)
  /\ runs < MaxRuns
  /\ repeat => (cat.pc = "done" /\ cat.fetch = "ok")
  /\ \E c \in Credentials :
       LET previous_data == load_previous_data(dataFile)
       IN cat' = [IdleCat EXCEPT
                    !.pc = IF Raised(previous_data) THEN "crashed" ELSE "fetch",
                    !.run = runs + 1, !.credentials = c,
                    !.startFile = dataFile,
                    !.vanishedBefore = vanished,
                    !.previous_data = previous_data,
                    !.repeat = repeat,
                    !.prevBody = IF repeat THEN cat.body ELSE EmptyText]
  /\ runs' = runs + 1
  /\ UNCHANGED <<script, recording, dataFile, vanished, tsVars>>

CatStart == CatBegin(FALSE)

CatStartRepeat == CatBegin(TRUE)

\* Lines 86-91 with 55-57: the GET raises RequestException (network error,
\* timeout, non-2xx status); fetch_current_data returns None and main
\* returns.
CatFetchFail ==
  /\ cat.pc = "fetch"
  /\ ~cat.repeat
  /\ cat' = [cat EXCEPT !.pc = "done", !.response = "error", !.fetch = "failed"]
  /\ UNCHANGED <<script, recording, runs, dataFile, vanished, tsVars>>

\* Lines 86-91 with 41-53: the GET returns 2xx with some body.  A body that
\* is no JSON, or that decodes to None, makes main return at line 91; an
\* exception fetch_current_data lets out is caught nowhere, and main dies
\* at line 86.
CatFetchBody ==
  /\ cat.pc = "fetch"
  /\ \E body \in (IF cat.repeat THEN {cat.prevBody} ELSE CatalogBodies) :
       LET current_data == fetch_current_data(body)
       IN /\ cat' = [cat EXCEPT
                    !.pc = CASE Raised(current_data) -> "crashed"
                             [] current_data = PyNone -> "done"
                             [] OTHER -> "diff",
                    !.fetch = CASE Raised(current_data) -> "raised"
                                [] current_data = PyNone -> "failed"
                                [] OTHER -> "ok",
                    !.response = "2xx",
                    !.body = body,
                    !.current_data = current_data,
                    !.prevBody = EmptyText]
          /\ vanished' = IF current_data.type = "dict"
                         THEN (vanished \cup PersistedKeys(cat.startFile)) \ BodyKeys(body)
                         ELSE vanished
  /\ UNCHANGED <<script, recording, runs, dataFile, tsVars>>

\* Lines 93-94: .keys() on a value that is no dict raises AttributeError.
CatCrash ==
  /\ cat.pc = "diff"
  /\ cat.previous_data.type # "dict" \/ cat.current_data.type # "dict"
  /\ cat' = [cat EXCEPT !.pc = "crashed"]
  /\ UNCHANGED <<script, recording, runs, dataFile, vanished, tsVars>>

\* Lines 93-108: some key is new; one message lists all the new keys.  An
\* exception that send_telegram_notification lets out ends the run at line
\* 108, before the save.
CatNotify ==
  /\ cat.pc = "diff"
  /\ cat.previous_data.type = "dict" /\ cat.current_data.type = "dict"
  /\ LET new_gifts == NewGifts(get_gift_keys(cat.current_data),
                               get_gift_keys(cat.previous_data))
     IN /\ new_gifts # {}
        /\ \E outcome \in SendOutcomes(cat.credentials, LoneSurrogate \notin new_gifts) :
             cat' = [cat EXCEPT !.pc = IF outcome = "raised" THEN "crashed" ELSE "save",
                       !.new_gifts = new_gifts,
                       !.notified = Append(@, [keys |-> new_gifts, outcome |-> outcome])]
  /\ UNCHANGED <<script, recording, runs, dataFile, vanished, tsVars>>

\* Lines 93-110: no key is new; nothing is sent.
CatNoNew ==
  /\ cat.pc = "diff"
  /\ cat.previous_data.type = "dict" /\ cat.current_data.type = "dict"
  /\ NewGifts(get_gift_keys(cat.current_data), get_gift_keys(cat.previous_data)) = {}
  /\ cat' = [cat EXCEPT !.pc = "save", !.new_gifts = {}]
  /\ UNCHANGED <<script, recording, runs, dataFile, vanished, tsVars>>

\* Lines 113 and 74: open(file_path, 'w') empties the data file.
CatOpen ==
  /\ cat.pc = "save"
  /\ dataFile' = DataFile(EmptyText)
  /\ cat' = [cat EXCEPT !.pc = "dump"]
  /\ UNCHANGED <<script, recording, runs, vanished, tsVars>>

\* Line 75, part-way: json.dump hands the text to the file chunk by chunk,
\* and what has been handed over can reach the disk before the rest (the
\* buffer fills, or an interrupt closes the file).  The file then holds the
\* beginning of the object, cut off after some of its members.
CatDumpPart ==
  /\ cat.pc = "dump"
  /\ \E k \in 0 .. Len(cat.current_data.items) - 1 :
       /\ dataFile.content.kind = "cutoff" => Len(dataFile.content.members) < k
       /\ dataFile' = DataFile(CutOff(SubSeq(cat.current_data.items, 1, k)))
  /\ UNCHANGED <<script, recording, runs, cat, vanished, tsVars>>

\* Line 75 and the end of the with block: the fetched catalog is in the file.
CatDump ==
  /\ cat.pc = "dump"
  /\ dataFile' = DataFile(json_dump(cat.current_data))
  /\ cat' = [cat EXCEPT !.pc = "done", !.wrote = TRUE]
  /\ UNCHANGED <<script, recording, runs, vanished, tsVars>>

\* The process dies in the middle of a run, as for main.py; the data file
\* stays as the steps so far have left it.
CatKill ==
  /\ cat.pc \in {"fetch", "diff", "save", "dump"}
  /\ cat' = [cat EXCEPT !.pc = "killed"]
  /\ UNCHANGED <<script, recording, runs, dataFile, vanished, tsVars>>

main ==
  \/ CatStart
  \/ CatStartRepeat
  \/ CatFetchFail
  \/ CatFetchBody
  \/ CatCrash
  \/ CatNotify
  \/ CatNoNew
  \/ CatOpen
  \/ CatDumpPart
  \/ CatDump

\* ---------------------------------------------------------- specification
\* Invocations one after the other: a scheduler starts the next run of the
\* script only when the previous one has exited.
Next == check_for_new_gifts(SeqProc) \/ main

Spec == Init /\ [][Next]_vars

\* The same schedule, with runs that can be interrupted at any step.
NextFault == Next \/ TsKill(SeqProc) \/ CatKill

SpecFault == Init /\ [][NextFault]_vars

\* The sequential schedule with its history kept.
SpecRecorded == InitRecorded /\ [][Next]_vars

\* Two invocations of main.py that overlap on the same state file: each
\* process runs the script once, the second starting at any point after the
\* first has started.  Nothing in the script takes a lock, so from there the
\* steps of the two processes interleave freely.
OverlapStart(p) ==
  /\ proc[p].pc = "idle"
  /\ p # SeqProc => proc[SeqProc].pc # "idle"
  /\ TsStart(p)

OverlapStep(p) ==
  \/ OverlapStart(p)
  \/ TsFetchFail(p)
  \/ TsFetchRaise(p)
  \/ TsFetchFrom(p, OverlapFeeds)
  \/ TsSkip(p)
  \/ TsMessageRaise(p)
  \/ TsAlert(p)
  \/ TsNoWrite(p)
  \/ TsOpen(p)
  \/ TsWrite(p)

NextOverlap == \E p \in Procs : OverlapStep(p)

SpecOverlap == Init /\ [][NextOverlap]_vars

\* ------------------------------------------------------------ properties
\* The fetch of the current gift_checker.py run failed: the GET raised, or
\* the 2xx body does not decode (it is no JSON, or JSON the parser gives up
\* on).
CatFetchFailed ==
  \/ cat.response = "error"
  \/ cat.response = "2xx" /\ Raised(response_json(cat.body))

\* The fetch of p's current main.py run failed: RequestException caught, or
\* the decode error propagated.
TsFetchFailed(p) == proc[p].fetch \in {"failed", "raised"}

\* C1 -- Fetch-failure non-mutation: in either script, once the fetch of a
\* run has failed (network error, non-2xx status, undecodable body) the run
\* is over (it has returned, or died on the exception of the decoder), the
\* state file holds exactly what it held when the run started, and the run
\* has sent (or tried to send) no notification.
Thm_C1_FetchFailureNonMutation ==
  /\ \A p \in Procs :
       TsFetchFailed(p) =>
         /\ proc[p].pc \in {"done", "crashed"}
         /\ tsFile = proc[p].startFile
         /\ proc[p].alerts = <<>>
  /\ CatFetchFailed =>
       /\ cat.pc \in {"done", "crashed"}
       /\ dataFile = cat.startFile
       /\ cat.notified = <<>>

\* C1 witness: a gift_checker.py run over a saved catalog got a 2xx response
\* whose body is not JSON, and has ended with the data file as it was.
W_C1_UndecodableBodyLeavesCatalog ==
  /\ cat.pc = "done"
  /\ cat.response = "2xx" /\ cat.body = Garbage
  /\ cat.startFile.exists /\ PersistedKeys(cat.startFile) # {}
  /\ dataFile = cat.startFile

\* The same with a body the parser gives up on: the run has died at line
\* 86 on the ValueError, over a saved catalog that is still in the file.
W_C1_OverlongIntBodyLeavesCatalog ==
  /\ cat.pc = "crashed" /\ cat.fetch = "raised"
  /\ cat.response = "2xx" /\ cat.body = OverlongInt
  /\ cat.startFile.exists /\ PersistedKeys(cat.startFile) # {}
  /\ dataFile = cat.startFile

\* The same case in main.py: the fetch failed over a stored watermark.
W_C1_FetchFailLeavesWatermark ==
  /\ proc[SeqProc].pc = "done" /\ proc[SeqProc].fetch = "failed"
  /\ Watermark(proc[SeqProc].startFile) > 0
  /\ tsFile = proc[SeqProc].startFile

\* C2 -- Key-set diff correctness, as claimed: when a gift_checker.py run
\* that loaded some previous key set and fetched a catalog is over, the keys
\* it reported as new are exactly the catalog's keys minus the previously
\* persisted keys, and the data file persists exactly the catalog's keys.
\* A run with credentials whose new keys hold a lone surrogate dies at line
\* 108, its diff made and nothing saved: the file still persists the
\* previous key set.
CE_C2_KeySetDiffThenReplace ==
  (/\ Finished(cat.pc) /\ cat.response = "2xx"
   /\ cat.body.kind = "object" /\ cat.previous_data.type = "dict")
  => /\ cat.new_gifts = BodyKeys(cat.body) \ PersistedKeys(cat.startFile)
     /\ PersistedKeys(dataFile) = BodyKeys(cat.body)

\* The largest block_timestamp a non-empty feed carries; where several
\* are equal in value, the first of them in feed order.
MaxStamp(feed) ==
  LET first == CHOOSE i \in 1 .. Len(feed) :
                 /\ \A j \in 1 .. Len(feed) :
                      Le(feed[j].block_timestamp, feed[i].block_timestamp)
                 /\ \A j \in 1 .. i - 1 :
                      Gt(feed[i].block_timestamp, feed[j].block_timestamp)
  IN feed[first].block_timestamp

\* The watermark a state file stands for is the number x.
Persists(f, x) == NumEq(PyInt(Watermark(f)), x)

\* C3 -- First-run suppression (timestamp variant), as claimed: a finished
\* main.py run that started from a zero-value cursor (state file absent, or
\* read as 0) and fetched at least one transfer has emitted no alert and has
\* left the largest fetched block_timestamp as the watermark.  The script
\* has no first-run branch: with last_timestamp = 0 every fetched transfer
\* is newer than the watermark and is alerted.
CE_C3_FirstRunSuppressionTs ==
  \A p \in Procs :
    (/\ proc[p].pc = "done" /\ proc[p].fetch = "ok"
     /\ Watermark(proc[p].startFile) = 0
     /\ proc[p].feed # <<>>)
    => /\ proc[p].alerts = <<>>
       /\ Persists(tsFile, MaxStamp(proc[p].feed))

\* C4 -- First-run suppression (catalog variant), as claimed: a finished
\* gift_checker.py run that found no data file and fetched a non-empty
\* catalog has sent no notification and has persisted the catalog's keys.
\* The script diffs against the empty key set, so every key is new and one
\* notification lists them all.
CE_C4_FirstRunSuppressionCatalog ==
  (/\ cat.pc = "done"
   /\ ~cat.startFile.exists
   /\ cat.response = "2xx" /\ cat.body.kind = "object"
   /\ BodyKeys(cat.body) # {})
  => /\ cat.notified = <<>>
     /\ PersistedKeys(dataFile) = BodyKeys(cat.body)

\* No invocation of main.py is in progress.
Quiescent == \A p \in Procs : Finished(proc[p].pc)

\* C5 -- No silent skip, as claimed, for a deployment that starts without a
\* watermark (so that attempted holds every alert there ever was): when no
\* run is in progress, the persisted watermark is never at or past the
\* block_timestamp of a transfer that the last fetch returned and that has
\* had no alert attempted, in that run or in an earlier one.  A transfer
\* that first shows up in a later feed with a block_timestamp at or below
\* the watermark is skipped by line 94 for good.
CE_C5_NoSilentSkip ==
  (watermark0 = 0 /\ Quiescent) =>
    \A p \in Procs : \A t \in Range(proc[p].feed) :
      Le(t.block_timestamp, PyInt(Watermark(tsFile))) => t \in attempted

\* C6 -- No re-notification, as claimed: whatever the successive feeds
\* return, no transfer has an alert sent for it in more than one run.  No
\* state write of this specification fails; but a run that dies on a
\* transfer whose message cannot be built has sent the alerts of the
\* transfers before it and never reaches its state write, so the next run
\* that fetches them sends them again.
CE_C6_NoReNotification == ~resent

\* C7 -- Ordered-cursor monotonicity, as claimed: outside the write itself
\* (between open and close the file is empty), the watermark the state file
\* persists is never below the one it persisted when the current run
\* started, nor below the one the deployment started with; in particular
\* every value a run has written is at least the value persisted before
\* that run.  This covers runs whose fetch failed, whose alerts failed or
\* were skipped, and runs over empty feeds.  A block_timestamp that is no
\* int (1.5, 2.0, true) passes lines 91-101 like any number, and line 38
\* writes its str(): "1.5", "2.0", "True".  int() rejects each of these
\* texts, so the file then stands for 0, below the watermark the run
\* started from.
CE_C7_WatermarkMonotone ==
  \A p \in Procs :
    (proc[p].run > 0 /\ proc[p].pc # "write") =>
      /\ Watermark(tsFile) >= Watermark(proc[p].startFile)
      /\ Watermark(tsFile) >= watermark0

\* C8 -- Chronological emission: in whatever order the feed returns its
\* transfers, the alerts of one run go out in non-decreasing
\* block_timestamp order.
Thm_C8_ChronologicalEmission ==
  \A p \in Procs :
    \A i, j \in 1 .. Len(proc[p].alerts) :
      i < j => Le(proc[p].alerts[i].transfer.block_timestamp,
                  proc[p].alerts[j].transfer.block_timestamp)

\* C8 witness: the feed came newest first and both transfers were alerted.
W_C8_NewestFirstFeedAlertedOldestFirst ==
  /\ proc[SeqProc].pc = "done"
  /\ Len(proc[SeqProc].feed) = 2 /\ Len(proc[SeqProc].alerts) = 2
  /\ Gt(proc[SeqProc].feed[1].block_timestamp, proc[SeqProc].feed[2].block_timestamp)

\* C9 -- Idempotence of empty diff, as claimed: in either script, a run
\* that fetches the very snapshot the previous run fetched, that run having
\* finished normally (its state write, if it had one, made in full), sends
\* no notification.  The catalog side holds.  A main.py run whose newest
\* block_timestamp is no int writes a text the next run reads as 0, and the
\* next run alerts every transfer of the same feed again.
CE_C9_IdempotentEmptyDiff ==
  /\ \A p \in Procs :
       (proc[p].repeat /\ proc[p].fetch = "ok") => proc[p].alerts = <<>>
  /\ (cat.repeat /\ cat.fetch = "ok") => cat.notified = <<>>

\* A state file of main.py whose text spells an integer, and one that
\* exists but does not.
ValidTs(f) == f.exists /\ IsIntLiteral(Strip(f.content))
InvalidTs(f) == f.exists /\ ~IsIntLiteral(Strip(f.content))

\* A data file of gift_checker.py that holds a JSON object, and one that
\* exists but holds no JSON at all, or bytes that are no UTF-8, or JSON the
\* parser gives up on.
ValidData(f) == f.exists /\ f.content.kind = "object" /\ ~HasBadBytes(f.content)
InvalidData(f) ==
  /\ f.exists
  /\ \/ f.content.kind \in {"garbage", "empty", "cutoff", "overlongint", "toodeep"}
     \/ HasBadBytes(f.content)

\* C10 -- Corrupt state recovery, as claimed: a state file holding invalid
\* content is loaded as the zero-value cursor without raising, and once a
\* run over it has fetched successfully and finished, the file holds valid
\* cursor content, whatever was fetched.  gift_checker.py catches only
\* JSONDecodeError around json.load: a data file that is not UTF-8 raises
\* UnicodeDecodeError and every run dies at line 85, the file never being
\* replaced.  (And main.py, which does load any invalid file as 0, leaves
\* it in place when no fetched transfer is newer than 0.)
CE_C10_CorruptStateAlwaysOverwritten ==
  /\ \A p \in Procs :
       (proc[p].run > 0 /\ InvalidTs(proc[p].startFile)) =>
         /\ proc[p].last_timestamp = 0
         /\ (proc[p].pc = "done" /\ proc[p].fetch = "ok") => ValidTs(tsFile)
  /\ (cat.run > 0 /\ InvalidData(cat.startFile)) =>
       /\ cat.previous_data = PyDict(<<>>)
       /\ (cat.pc = "done" /\ cat.response = "2xx" /\ cat.body.kind = "object")
            => ValidData(dataFile)

\* C11 -- Fault leaves state intact, as claimed: whenever a run over a
\* stored cursor (a positive watermark / a non-empty key set) has been
\* interrupted, at whatever step, the state file holds either exactly what
\* it held when the run started or the complete new cursor of that run (the
\* decimal text of the newest timestamp found / the fetched catalog), never
\* an empty file.  Both scripts write in place: open(..., 'w') empties the
\* file before the new content is written, so a run interrupted between the
\* two leaves an empty file, and a gift_checker.py run interrupted inside
\* json.dump leaves the beginning of the new catalog, cut off; the next run
\* loads either as the zero-value cursor.
CE_C11_FaultLeavesStateIntact ==
  /\ \A p \in Procs :
       (proc[p].pc = "killed" /\ Watermark(proc[p].startFile) > 0) =>
         \/ tsFile = proc[p].startFile
         \/ /\ ValidTs(tsFile)
            /\ proc[p].feed # <<>>
            /\ Persists(tsFile, MaxStamp(proc[p].feed))
  /\ (cat.pc = "killed" /\ PersistedKeys(cat.startFile) # {}) =>
       \/ dataFile = cat.startFile
       \/ /\ ValidData(dataFile)
          /\ PersistedKeys(dataFile) = BodyKeys(cat.body)

\* The state file a finished main.py run must leave behind, as a function
\* of what it found in the file and what the feed returned.
ExpectedTsFile(startFile, feed) ==
  IF \E t \in Range(feed) : Gt(t.block_timestamp, PyInt(Watermark(startFile)))
  THEN File(str(MaxStamp(feed)))
  ELSE startFile

\* The run of p has died in the loop, on a new transfer whose message
\* cannot be built (lines 104-122), before send_alert was called for it.
DiedOnMessage(p) ==
  /\ proc[p].pc = "crashed" /\ proc[p].fetch = "ok"
  /\ proc[p].i <= Len(proc[p].transfers)
  /\ proc[p].transfers[proc[p].i].details = "null"
  /\ IsNew(proc[p].transfers[proc[p].i].block_timestamp, proc[p].last_timestamp)

\* The run of p, which has credentials, has died in the loop at line 127:
\* send_alert was called for a new transfer of its feed and let the
\* exception out, the message or the chat id being impossible to encode.
DiedOnSend(p) ==
  /\ proc[p].pc = "crashed" /\ proc[p].fetch = "ok"
  /\ proc[p].i <= Len(proc[p].transfers)
  /\ \/ proc[p].credentials = "unencodable"
     \/ /\ proc[p].credentials = "set"
        /\ proc[p].transfers[proc[p].i].details = "surrogate"
  /\ proc[p].alerts # <<>>
  /\ proc[p].alerts[Len(proc[p].alerts)] =
       [transfer |-> proc[p].transfers[proc[p].i], outcome |-> "raised"]

\* The file a main.py run leaves behind depends on the credentials only
\* through the way the run ends.  The run of p ended as a run over the same
\* file and feed ends without credentials: normally, or on a transfer whose
\* message cannot be built.
EndedAsWithoutCredentials(p) ==
  proc[p].pc = "crashed" => DiedOnMessage(p)

\* C12 -- Missing credentials degrade to a no-op, as claimed: in a run
\* without bot token or chat id every notification is skipped; and the
\* state file is updated exactly as with credentials present: a run that
\* fetched its snapshot ends the same way with and without them, and once
\* it has finished the file is a function of the file found and the
\* snapshot fetched alone.  A message that holds a lone surrogate tells the
\* two apart: without credentials the sender returns before the POST and
\* the run goes on to the state write, with credentials requests.post
\* raises UnicodeEncodeError, the sender lets it out and the run dies
\* before the state write.
CE_C12_CredentialsDoNotChangeState ==
  /\ \A p \in Procs :
       /\ (proc[p].run > 0 /\ proc[p].credentials = "unset") =>
            \A i \in 1 .. Len(proc[p].alerts) : proc[p].alerts[i].outcome = "skipped"
       /\ proc[p].fetch = "ok" => EndedAsWithoutCredentials(p)
       /\ (proc[p].pc = "done" /\ proc[p].fetch = "ok") =>
            tsFile = ExpectedTsFile(proc[p].startFile, proc[p].feed)
  /\ (cat.run > 0 /\ cat.credentials = "unset") =>
       \A i \in 1 .. Len(cat.notified) : cat.notified[i].outcome = "skipped"
  /\ (cat.pc = "crashed" /\ cat.response = "2xx") =>
       cat.current_data.type # "dict" \/ cat.previous_data.type # "dict"
  /\ (cat.pc = "done" /\ cat.response = "2xx" /\ cat.body.kind = "object") =>
       /\ ValidData(dataFile)
       /\ PersistedKeys(dataFile) = BodyKeys(cat.body)

\* The positions of a feed whose record is newer than watermark L.
NewPositions(feed, L) ==
  {i \in 1 .. Len(feed) : Gt(feed[i].block_timestamp, PyInt(L))}

\* C13 -- A failed notification does not abort the batch, as claimed: when
\* a main.py run in which some send has failed is over, there has been one
\* send attempt per new record of the feed, in timestamp order, and the
\* watermark has been persisted as the newest timestamp of the feed.
\* (Stated for feeds whose messages can all be built.)  A send that fails
\* with RequestException is logged and the loop goes on; a send that fails
\* with UnicodeEncodeError, on a message holding a lone surrogate, is caught
\* nowhere: the run dies at line 127, the records after it get no attempt
\* and no watermark is persisted.
CE_C13_FailedSendDoesNotAbort ==
  \A p \in Procs :
    (/\ proc[p].fetch = "ok" /\ Finished(proc[p].pc)
     /\ \A t \in Range(proc[p].feed) : t.details # "null"
     /\ \E i \in 1 .. Len(proc[p].alerts) :
          proc[p].alerts[i].outcome \in {"failed", "raised"})
    => /\ Len(proc[p].alerts) =
            Cardinality(NewPositions(proc[p].feed, Watermark(proc[p].startFile)))
       /\ \A i \in 1 .. Len(proc[p].alerts) - 1 :
            Le(proc[p].alerts[i].transfer.block_timestamp,
               proc[p].alerts[i + 1].transfer.block_timestamp)
       /\ proc[p].wrote
       /\ ValidTs(tsFile) /\ Persists(tsFile, MaxStamp(proc[p].feed))

\* What one step may do to the state file and the alerts of process p of
\* main.py, if every run is a single pass.
SinglePassTs(p) ==
  LET a == proc[p]
      b == proc'[p]
  IN \* the file is read when the run starts, before the fetch ...
     /\ b.run # a.run =>
          /\ b.pc = "fetch" /\ b.fetch = "none"
          /\ b.startFile = tsFile /\ b.last_timestamp = Watermark(tsFile)
          /\ tsFile' = tsFile
     \* ... and what was read stays the run's watermark: no second read
     /\ b.run = a.run =>
          /\ b.startFile = a.startFile
          /\ b.last_timestamp = a.last_timestamp
     \* an alert is attempted only while nothing has been written
     /\ (b.run = a.run /\ b.alerts # a.alerts) =>
          /\ a.pc = "loop" /\ ~a.wrote
          /\ tsFile = a.startFile /\ tsFile' = tsFile
     \* once the write is over the run touches neither file nor alerts
     /\ (b.run = a.run /\ a.wrote) => (tsFile' = tsFile /\ b.alerts = a.alerts)

\* The same for the process of gift_checker.py.
SinglePassCat ==
  /\ cat'.run # cat.run =>
       /\ cat'.pc \in {"fetch", "crashed"} /\ cat'.response = "none"
       /\ cat'.startFile = dataFile /\ dataFile' = dataFile
  /\ cat'.run = cat.run =>
       /\ cat'.startFile = cat.startFile
       /\ cat'.previous_data = cat.previous_data
  /\ (cat'.run = cat.run /\ cat'.notified # cat.notified) =>
       /\ cat.pc = "diff" /\ ~cat.wrote
       /\ dataFile = cat.startFile /\ dataFile' = dataFile
  /\ (cat'.run = cat.run /\ cat.wrote) =>
       (dataFile' = dataFile /\ cat'.notified = cat.notified)
  /\ dataFile' # dataFile =>
       /\ cat.pc \in {"save", "dump"} /\ ~cat.wrote
       /\ cat'.notified = cat.notified

\* C14 -- Single-pass ordering: in every run of either script the state
\* file is read once, when the run starts and before the fetch; the file
\* changes only in the one write of the run (open, then write), which a
\* main.py run begins only when its loop has gone through every transfer;
\* no notification is attempted once the write has begun.
Thm_C14_SinglePassOrdering ==
  [][/\ \A p \in Procs : SinglePassTs(p)
     /\ SinglePassCat
     /\ tsFile' # tsFile =>
          \E p \in Procs :
            /\ proc[p].pc \in {"loop", "write"} /\ ~proc[p].wrote
            /\ proc[p].i > Len(proc[p].transfers)
            /\ proc'[p].alerts = proc[p].alerts]_vars

\* C14 witness: a run made two alert attempts and then its one write.
W_C14_TwoAttemptsThenWrite ==
  /\ proc[SeqProc].pc = "done" /\ proc[SeqProc].wrote
  /\ Len(proc[SeqProc].alerts) = 2
  /\ tsFile # proc[SeqProc].startFile

\* The same case in gift_checker.py: one notification, then the save.
W_C14_NotificationThenSave ==
  /\ cat.pc = "done" /\ cat.wrote
  /\ Len(cat.notified) = 1
  /\ dataFile # cat.startFile

\* How many alerts of a run are for transfer t, and how many positions of
\* a feed hold t.
AlertCount(alerts, t) == Cardinality({i \in 1 .. Len(alerts) : alerts[i].transfer = t})
FeedCount(feed, t) == Cardinality({i \in 1 .. Len(feed) : feed[i] = t})

\* C15 -- Strict-watermark rule, as claimed: when a main.py run that loaded
\* watermark L and fetched a feed is over, a record has as many alert
\* attempts as it has occurrences in the feed if its block_timestamp is
\* strictly above L, and none otherwise; and if some record is above L, the
\* watermark persisted at the end is the largest block_timestamp of the
\* feed.  A record above L whose message cannot be built ends the run at
\* that record: no attempt for it nor for the records after it, and no
\* watermark persisted.
CE_C15_StrictWatermarkRule ==
  \A p \in Procs :
    (Finished(proc[p].pc) /\ proc[p].fetch = "ok") =>
      LET L == Watermark(proc[p].startFile)
      IN /\ proc[p].last_timestamp = L
         /\ \A t \in Transfers :
              AlertCount(proc[p].alerts, t) =
                IF Gt(t.block_timestamp, PyInt(L)) THEN FeedCount(proc[p].feed, t) ELSE 0
         /\ NewPositions(proc[p].feed, L) # {} =>
              /\ ValidTs(tsFile)
              /\ Persists(tsFile, MaxStamp(proc[p].feed))

\* C16 -- Full replace drops vanished keys, as claimed: a key that was in
\* the persisted cursor and was absent from the catalog fetched by some run
\* is, once that run is over, no longer in the persisted cursor; and a later
\* run whose catalog has the key again reports it as new and lists it in
\* its notification.  A run with credentials whose catalog lacks a
\* persisted key and brings a new key holding a lone surrogate dies at line
\* 108, before save_current_data: the vanished key stays persisted.
CE_C16_FullReplaceDropsVanishedKeys ==
  /\ Finished(cat.pc) => vanished \cap PersistedKeys(dataFile) = {}
  /\ (cat.pc = "done" /\ cat.response = "2xx" /\ cat.body.kind = "object") =>
       /\ (PersistedKeys(cat.startFile) \ BodyKeys(cat.body))
            \cap PersistedKeys(dataFile) = {}
       /\ \A k \in cat.vanishedBefore \cap BodyKeys(cat.body) :
            /\ k \in cat.new_gifts
            /\ Len(cat.notified) = 1 /\ k \in cat.notified[1].keys

\* The decimal text of the newest timestamp process p fetched.
OwnText(p) == str(MaxStamp(proc[p].feed))

\* C17 -- Overlapping invocations are last-writer-wins, as claimed: two
\* invocations of main.py that overlap on the state file never block each
\* other (a started run always has a next step) and never fail because of
\* each other (a run dies only on its own fetch, or on a transfer of its
\* own feed whose message cannot be built or sent); and the write of an
\* invocation leaves in the file the value that invocation computed from
\* its own read and fetch, the decimal text of the newest timestamp it
\* fetched, and nothing of what the other invocation wrote, so that the
\* final content is the value of the invocation that writes last.  The
\* write is in place, through a handle opened with 'w' before the other
\* invocation wrote: it puts the text at offset 0 and leaves what lies
\* beyond it, so "2" written over the "10" of the other invocation leaves
\* "20", the value of neither.
CE_C17_LastWriterWinsNoMerge ==
  /\ [](\A p \in Procs :
          /\ proc[p].pc = "crashed" =>
               (proc[p].fetch = "raised" \/ DiedOnMessage(p) \/ DiedOnSend(p))
          /\ proc[p].pc \in {"fetch", "loop", "write"} => ENABLED OverlapStep(p))
  /\ [][\A p \in Procs :
          (proc[p].pc = "write" /\ proc'[p].pc = "done") =>
            tsFile' = File(OwnText(p))]_vars

\* The larger of two numbers.
Larger(a, b) == IF Gt(a, b) THEN a ELSE b

\* C18 -- Watermark equals the running maximum, as claimed: between runs
\* of a sequential schedule (no write of which fails), the watermark the
\* state file persists is the largest of the watermark the deployment
\* started with and every block_timestamp any successful fetch has
\* returned so far.  A run that dies on a transfer whose message cannot be
\* built has fetched its feed and persists nothing of it.
CE_C18_WatermarkIsRunningMax ==
  Quiescent => Persists(tsFile, Larger(PyInt(watermark0), maxFetched))

\* C19 -- Asymmetric persistence, as claimed: a finished main.py run whose
\* feed has no record above the watermark it loaded has not written: the
\* state file is the very file the run found, absent if it was absent and
\* invalid if it was invalid.  A gift_checker.py run that fetched a catalog
\* has, once it is over, written the data file, and the file holds that
\* catalog, also when no key was new.  The timestamp side holds; on the
\* catalog side a run with credentials whose new keys hold a lone surrogate
\* dies at line 108 and writes nothing.
CE_C19_AsymmetricPersistence ==
  /\ \A p \in Procs :
       (/\ proc[p].pc = "done" /\ proc[p].fetch = "ok"
        /\ NewPositions(proc[p].feed, Watermark(proc[p].startFile)) = {})
       => /\ ~proc[p].wrote
          /\ tsFile = proc[p].startFile
  /\ (/\ Finished(cat.pc) /\ cat.response = "2xx"
      /\ cat.body.kind = "object" /\ cat.previous_data.type = "dict")
     => /\ cat.wrote
        /\ dataFile = DataFile(JsonObject(DictFromMembers(Replaced(cat.body).members)))

====
